---- MODULE Spec2Model ----
(***************************************************************************)
(* A model of egtlib/egtparser.py: the line classifier                     *)
(* (annotate_with_indent_and_markers), the lookahead cursor                *)
(* (GeneratorLookahead), the event parser (EventParser), the log segmenter *)
(* (LogParser), the action-list parser (BodyParser) and the document       *)
(* parser (ProjectParser).                                                 *)
(*                                                                         *)
(* A text line is a sequence of atoms.  The atoms " ", "\t", "-", "*",     *)
(* ":", "," and "+" are the characters themselves; every other atom is a   *)
(* maximal run of letters (a word) or of digits (a numeral).  The regular  *)
(* expressions and the character loops of the source are translated atom   *)
(* by atom.                                                                 *)
(***************************************************************************)
EXTENDS Integers, Sequences, FiniteSets, TLC

\* ------------------------------------------------------------------------
\* Bounds of the model
\* ------------------------------------------------------------------------
MaxAnnLines == 3
MaxCursorCalls == 5
MaxLogLines == 3
MaxBodyLines == 4
MaxDocLines == 4
MaxEventCalls == 3
MaxPassLines == 2

\* ------------------------------------------------------------------------
\* Python values
\* ------------------------------------------------------------------------
\* Python's None where a marker is expected (egtparser.py:48)
NoMarker == "None"
\* the marker given to empty lines (egtparser.py:68)
BlankMarker == " "

\* `not l or l.isspace()` (egtparser.py:40)
IsBlank(l) == \A k \in 1..Len(l) : l[k] \in {" ", "\t"}

\* ------------------------------------------------------------------------
\* annotate_with_indent_and_markers (egtparser.py:27-73)
\* ------------------------------------------------------------------------
\* the loop `for c in l` (egtparser.py:46-59)
RECURSIVE ScanFrom(_, _, _, _, _)
ScanFrom(l, k, lev, mlev, marker) ==
    IF k > Len(l) THEN [lev |-> lev, mlev |-> mlev, marker |-> marker]
    ELSE IF l[k] = " " THEN ScanFrom(l, k + 1, lev + 1, mlev, marker)
    ELSE IF l[k] = "\t" THEN ScanFrom(l, k + 1, lev + 8, mlev, marker)
    ELSE IF marker = NoMarker /\ l[k] \in {"*", "-"}
         THEN ScanFrom(l, k + 1, lev + 1, lev, l[k])
    ELSE [lev |-> lev, mlev |-> mlev, marker |-> marker]

ScanIndent(l) == ScanFrom(l, 1, 0, 0, NoMarker)

MkLine(num, ind, mark, l) == [num |-> num, ind |-> ind, mark |-> mark, line |-> l]

\* the lines yielded for a buffered run of empty lines (egtparser.py:67-68, 72-73)
EmptyLinesOut(first_lineno, empties, empty_lev) ==
    [j \in 1..Len(empties) |->
        MkLine(first_lineno + empties[j][1], empty_lev, BlankMarker, empties[j][2])]

\* empty_lev as chosen at egtparser.py:61-66 (variant with a strict comparison)
EmptyLevStrict(sc, last_ind) ==
    LET mlev == IF sc.marker = NoMarker THEN sc.lev ELSE sc.mlev
    IN  IF mlev > last_ind THEN last_ind ELSE 0

\* empty_lev as chosen at egtparser.py:61-66
EmptyLev(sc, last_ind) ==
    LET mlev == IF sc.marker = NoMarker THEN sc.lev ELSE sc.mlev
    IN  IF mlev >= last_ind THEN last_ind ELSE 0

\* one iteration of the loop over enumerate(lines) (egtparser.py:39-71);
\* st = [last_indent, last_empty_lines, out], lineno is 0-based
AnnStep(st, first_lineno, lineno, l) ==
    IF IsBlank(l)
    THEN [st EXCEPT !.last_empty_lines = Append(@, <<lineno, l>>)]
    ELSE LET sc == ScanIndent(l)
             flushed == IF st.last_empty_lines # <<>>
                        THEN EmptyLinesOut(first_lineno, st.last_empty_lines,
                                           EmptyLev(sc, st.last_indent))
                        ELSE <<>>
         IN  [last_indent |-> sc.lev,
              last_empty_lines |-> <<>>,
              out |-> Append(st.out \o flushed,
                             MkLine(first_lineno + lineno, sc.lev, sc.marker, l))]

\* the trailing loop after the input is exhausted (egtparser.py:72-73)
AnnFinish(st, first_lineno) ==
    [st EXCEPT !.out = @ \o EmptyLinesOut(first_lineno, st.last_empty_lines, 0),
               !.last_empty_lines = <<>>]

AnnInit == [last_indent |-> 0, last_empty_lines |-> <<>>, out |-> <<>>]

RECURSIVE AnnFold(_, _, _, _)
AnnFold(st, first_lineno, lines, k) ==
    IF k > Len(lines) THEN AnnFinish(st, first_lineno)
    ELSE AnnFold(AnnStep(st, first_lineno, k - 1, lines[k]), first_lineno, lines, k + 1)

\* everything the generator yields, in order
Annotate(lines, first_lineno) == AnnFold(AnnInit, first_lineno, lines, 1).out

\* ------------------------------------------------------------------------
\* GeneratorLookahead (egtparser.py:76-96)
\* ------------------------------------------------------------------------
\* la = [pos, has_lookahead, lookahead]: pos counts the items the wrapped
\* generator has yielded so far, lookahead is None (<<>>) or <<item>>.
\* A call returns [la, stop, val]: stop is the StopIteration of gen.next().
GLInit == [pos |-> 0, has_lookahead |-> FALSE, lookahead |-> <<>>]

\* variant of peek that forgets to set has_lookahead
GLPeekNoFlag(la, items) ==
    IF ~la.has_lookahead
    THEN IF la.pos < Len(items)
         THEN [la |-> [pos |-> la.pos + 1, has_lookahead |-> FALSE,
                       lookahead |-> <<items[la.pos + 1]>>],
               stop |-> FALSE, val |-> <<items[la.pos + 1]>>]
         ELSE [la |-> la, stop |-> TRUE, val |-> <<>>]
    ELSE [la |-> la, stop |-> FALSE, val |-> la.lookahead]

\* peek (egtparser.py:85-89)
GLPeek(la, items) ==
    IF ~la.has_lookahead
    THEN IF la.pos < Len(items)
         THEN [la |-> [pos |-> la.pos + 1, has_lookahead |-> TRUE,
                       lookahead |-> <<items[la.pos + 1]>>],
               stop |-> FALSE, val |-> <<items[la.pos + 1]>>]
         ELSE [la |-> la, stop |-> TRUE, val |-> <<>>]
    ELSE [la |-> la, stop |-> FALSE, val |-> la.lookahead]

\* pop (egtparser.py:91-96)
GLPop(la, items) ==
    IF la.has_lookahead
    THEN [la |-> [la EXCEPT !.has_lookahead = FALSE],
          stop |-> FALSE, val |-> la.lookahead]
    ELSE IF la.pos < Len(items)
         THEN [la |-> [la EXCEPT !.pos = @ + 1],
               stop |-> FALSE, val |-> <<items[la.pos + 1]>>]
         ELSE [la |-> la, stop |-> TRUE, val |-> <<>>]

\* ------------------------------------------------------------------------
\* Atoms
\* ------------------------------------------------------------------------
\* int() of a run of digits (egtparser.py:203) and its number of characters
NumVal ==
    "00" :> 0 @@ "2" :> 2 @@ "9" :> 9 @@ "10" :> 10 @@ "12" :> 12 @@ "15" :> 15
    @@ "16" :> 16 @@ "22" :> 22 @@ "25" :> 25 @@ "75" :> 75 @@ "05" :> 5
    @@ "01" :> 1 @@ "2015" :> 2015 @@ "2021" :> 2021
NumLen ==
    "00" :> 2 @@ "2" :> 1 @@ "9" :> 1 @@ "10" :> 2 @@ "12" :> 2 @@ "15" :> 2
    @@ "16" :> 2 @@ "22" :> 2 @@ "25" :> 2 @@ "75" :> 2 @@ "05" :> 2
    @@ "01" :> 2 @@ "2015" :> 4 @@ "2021" :> 4
\* the month names of the default parserinfo that the inputs use
MonthNum == "march" :> 3 @@ "april" :> 4

IsNumeral(a) == a \in DOMAIN NumVal
IsMonth(a) == a \in DOMAIN MonthNum
\* \s of the regular expressions
IsWs(a) == a \in {" ", "\t"}

None == <<>>
Some(x) == <<x>>

RECURSIVE LStrip(_, _)
LStrip(s, S) == IF s # <<>> /\ s[1] \in S THEN LStrip(Tail(s), S) ELSE s
RECURSIVE RStrip(_, _)
RStrip(s, S) ==
    IF s # <<>> /\ s[Len(s)] \in S THEN RStrip(SubSeq(s, 1, Len(s) - 1), S) ELSE s
\* str.strip(chars)
Strip(s, S) == LStrip(RStrip(s, S), S)

RECURSIVE CountLeading(_, _)
CountLeading(s, S) == IF s # <<>> /\ s[1] \in S THEN 1 + CountLeading(Tail(s), S) ELSE 0

\* s[n:]
Drop(s, n) == SubSeq(s, n + 1, Len(s))

\* ------------------------------------------------------------------------
\* datetime
\* ------------------------------------------------------------------------
MkDT(y, mo, d, h, mi, sec) ==
    [year |-> y, month |-> mo, day |-> d, hour |-> h, minute |-> mi, second |-> sec]

IsLeap(y) == (y % 4 = 0 /\ y % 100 # 0) \/ y % 400 = 0
DaysIn(y, mo) ==
    IF mo = 2 THEN (IF IsLeap(y) THEN 29 ELSE 28)
    ELSE IF mo \in {4, 6, 9, 11} THEN 30 ELSE 31

\* datetime.replace(hour=0, minute=0, second=0, microsecond=0)
Midnight(dt) == [dt EXCEPT !.hour = 0, !.minute = 0, !.second = 0]

\* dt + datetime.timedelta(days=1)
AddDay(dt) ==
    IF dt.day < DaysIn(dt.year, dt.month) THEN [dt EXCEPT !.day = @ + 1]
    ELSE IF dt.month < 12 THEN [dt EXCEPT !.day = 1, !.month = @ + 1]
    ELSE [dt EXCEPT !.day = 1, !.month = 1, !.year = @ + 1]

\* a < b on datetimes
DtLess(a, b) ==
    LET ka == <<a.year, a.month, a.day, a.hour, a.minute, a.second>>
        kb == <<b.year, b.month, b.day, b.hour, b.minute, b.second>>
    IN  \E i \in 1..6 : ka[i] < kb[i] /\ \A j \in 1..(i - 1) : ka[j] = kb[j]

\* parsetime (egtparser.py:201-203): None stands for the ValueError of
\* datetime.time
ParseTime(h, m) ==
    IF NumVal[h] <= 23 /\ NumVal[m] <= 59
    THEN Some([hour |-> NumVal[h], minute |-> NumVal[m]])
    ELSE None

\* datetime.datetime.combine(date, time)
Combine(date, t) == MkDT(date.year, date.month, date.day, t.hour, t.minute, 0)

\* ------------------------------------------------------------------------
\* EventParser (egtparser.py:99-150)
\* ------------------------------------------------------------------------
\* what the installed dateutil does with a text that holds no date at all
\* (empty or white space): releases up to 2.5 return the default unchanged
\* ("default"), later releases raise ValueError ("ValueError")
VARIABLE dateutil_blank

DateutilBlankSet == {"default", "ValueError"}

\* the fields dateutil reads from the text; the phrases understood are
\*   YYYY | D | D month | YYYY-MM-DD | H:MM | D month H:MM
\* and anything else is a ValueError (None)
DateFields(t) ==
    IF t = <<>>
        THEN (IF dateutil_blank = "default" THEN Some(<<>>) ELSE None)
    ELSE IF Len(t) = 1 /\ IsNumeral(t[1]) /\ NumLen[t[1]] = 4
        THEN Some([year |-> NumVal[t[1]]])
    ELSE IF Len(t) = 1 /\ IsNumeral(t[1]) /\ NumLen[t[1]] <= 2
        THEN Some([day |-> NumVal[t[1]]])
    ELSE IF Len(t) = 3 /\ IsNumeral(t[1]) /\ IsWs(t[2]) /\ IsMonth(t[3])
        THEN Some([day |-> NumVal[t[1]], month |-> MonthNum[t[3]]])
    ELSE IF Len(t) = 5 /\ IsNumeral(t[1]) /\ NumLen[t[1]] = 4 /\ t[2] = "-"
            /\ IsNumeral(t[3]) /\ t[4] = "-" /\ IsNumeral(t[5])
        THEN Some([year |-> NumVal[t[1]], month |-> NumVal[t[3]], day |-> NumVal[t[5]]])
    ELSE IF Len(t) = 3 /\ IsNumeral(t[1]) /\ t[2] = ":" /\ IsNumeral(t[3])
        THEN Some([hour |-> NumVal[t[1]], minute |-> NumVal[t[3]]])
    ELSE IF Len(t) = 7 /\ IsNumeral(t[1]) /\ IsWs(t[2]) /\ IsMonth(t[3]) /\ IsWs(t[4])
            /\ IsNumeral(t[5]) /\ t[6] = ":" /\ IsNumeral(t[7])
        THEN Some([day |-> NumVal[t[1]], month |-> MonthNum[t[3]],
                   hour |-> NumVal[t[5]], minute |-> NumVal[t[7]]])
    ELSE None

Field(f, name, dflt) == IF name \in DOMAIN f THEN f[name] ELSE dflt

\* default.replace(**fields): None is the ValueError of an impossible date
ReplaceFields(f, default) ==
    IF /\ Field(f, "month", default.month) \in 1..12
       /\ Field(f, "day", default.day) \in
              1..DaysIn(Field(f, "year", default.year), Field(f, "month", default.month))
       /\ Field(f, "hour", default.hour) <= 23
       /\ Field(f, "minute", default.minute) <= 59
    THEN Some(MkDT(Field(f, "year", default.year),
                   Field(f, "month", default.month),
                   Field(f, "day", default.day),
                   Field(f, "hour", default.hour),
                   Field(f, "minute", default.minute),
                   default.second))
    ELSE None

FieldsParsed(fs, default) == IF fs = None THEN None ELSE ReplaceFields(fs[1], default)

\* dateutil.parser.parse(s, default=default) (egtparser.py:110): the fields
\* the text lacks are taken from default; None is the ValueError
DateutilParse(s, default) == FieldsParsed(DateFields(Strip(s, {" ", "\t"})), default)

\* variant: the default follows every successful parse
EPResultAlways(d, default, set_default) ==
    [d |-> d, default |-> IF d # None THEN Midnight(d[1]) ELSE default]

EPResult(d, default, set_default) ==
    [d |-> d, default |-> IF d # None /\ set_default THEN Midnight(d[1]) ELSE default]

\* EventParser.parse (egtparser.py:108-115): the value returned and the
\* new self.default
EPParse(s, default, set_default) ==
    EPResult(DateutilParse(s, default), default, set_default)

\* variant of _to_event: all-day decided by the hour alone
ToEventHourOnly(d) ==
    IF d = None THEN None
    ELSE Some([start |-> d, end |-> None, allDay |-> (d[1].hour = 0)])

\* _to_event (egtparser.py:117-123)
ToEvent(d) ==
    IF d = None THEN None
    ELSE Some([start |-> d, end |-> None,
               allDay |-> (d[1].hour = 0 /\ d[1].minute = 0 /\ d[1].second = 0)])

\* event_range.search(s) (egtparser.py:21, 131): 0, or the position of the
\* first "--"
RangeAt(s) ==
    IF \E i \in 1..(Len(s) - 1) : s[i] = "-" /\ s[i + 1] = "-"
    THEN CHOOSE i \in 1..(Len(s) - 1) :
            /\ s[i] = "-" /\ s[i + 1] = "-"
            /\ \A j \in 1..(i - 1) : ~(s[j] = "-" /\ s[j + 1] = "-")
    ELSE 0

\* variant of the range branch: all-day inferred from the start
RangeEventAllDay(since, until_text) ==
    [ev |-> Some([start |-> since.d,
                  end |-> EPParse(until_text, since.default, FALSE).d,
                  allDay |-> IF since.d = None THEN FALSE
                             ELSE since.d[1].hour = 0 /\ since.d[1].minute = 0]),
     default |-> EPParse(until_text, since.default, FALSE).default]

\* the range branch once since is parsed (egtparser.py:138-143): the event
\* and self.default as the parse of the until side leaves it
RangeEvent(since, until_text) ==
    [ev |-> Some([start |-> since.d,
                  end |-> EPParse(until_text, since.default, FALSE).d,
                  allDay |-> FALSE]),
     default |-> EPParse(until_text, since.default, FALSE).default]

SingleEvent(r) == [ev |-> ToEvent(r.d), default |-> r.default]

\* parsedate (egtparser.py:125-150): the event returned (or None) and the
\* new self.default.  s[:mo.start()] ends before the white space in front
\* of "--", s[mo.end():] starts after the white space behind it.
ParseDate(s, default) ==
    IF s = <<>> THEN [ev |-> None, default |-> default]
    ELSE IF RangeAt(s) # 0
    THEN RangeEvent(EPParse(RStrip(SubSeq(s, 1, RangeAt(s) - 1), {" ", "\t"}),
                            default, TRUE),
                    LStrip(Drop(s, RangeAt(s) + 1), {" ", "\t"}))
    ELSE IF IsNumeral(s[1]) THEN SingleEvent(EPParse(s, default, TRUE))
    ELSE IF Len(s) >= 2 /\ s[1] = "d" /\ s[2] = ":"
    THEN SingleEvent(EPParse(Drop(s, 2), default, TRUE))
    ELSE [ev |-> None, default |-> default]

\* ------------------------------------------------------------------------
\* Regexps (egtparser.py:20-24)
\* ------------------------------------------------------------------------
\* log_date.match(line) (egtparser.py:23): None, or the text of the group
\* `mo.group("date") or mo.group("year")` (egtparser.py:240)
LogDateMatch(line) ==
    IF line = <<>> THEN None
    ELSE IF IsNumeral(line[1]) /\ NumLen[line[1]] = 4 /\ IsBlank(Tail(line))
        THEN Some(<<line[1]>>)
    ELSE IF line[1] # "-" THEN None
    ELSE LET nd == CountLeading(line, {"-"})
             nw == CountLeading(Drop(line, nd), {" ", "\t"})
             rest == RStrip(Drop(line, nd + nw), {" ", "\t"})
         IN  IF rest # <<>> THEN Some(rest)
             \* nothing is left for the date group: \s* or -+ gives one
             \* character back
             ELSE IF nw > 0 THEN Some(<<line[nd + nw]>>)
             ELSE IF nd > 1 THEN Some(<<"-">>)
             ELSE None

\* what follows the colon of a log head: \s+ start - \s* end?
HeadTail(t) ==
    LET nw == CountLeading(t, {" ", "\t"})
        u == Drop(t, nw)
    IN  IF nw >= 1 /\ Len(u) >= 4 /\ IsNumeral(u[1]) /\ u[2] = ":"
           /\ IsNumeral(u[3]) /\ u[4] = "-"
        THEN LET v == Drop(u, 4)
                 w == Drop(v, CountLeading(v, {" ", "\t"}))
             IN  Some([start |-> <<u[1], u[3]>>,
                       end |-> IF Len(w) >= 3 /\ IsNumeral(w[1]) /\ w[2] = ":"
                                  /\ IsNumeral(w[3])
                               THEN Some(<<w[1], w[3]>>) ELSE None])
        ELSE None

\* the colons at which the head pattern matches
HeadColons(line) ==
    {c \in 2..Len(line) :
        /\ line[c] = ":"
        /\ \/ ~IsWs(line[1])
           \/ line[1] = " " /\ IsNumeral(line[2]) /\ c >= 3
        /\ HeadTail(Drop(line, c)) # None}

\* log_head.match(line) (egtparser.py:24): None, or the groups date, start
\* and end; the lazy date group ends at the first colon that lets the rest
\* of the pattern match
LogHeadMatch(line) ==
    IF HeadColons(line) = {} THEN None
    ELSE CHOOSE mo \in
             { Some([date |-> SubSeq(line, 1, c - 1),
                     start |-> HeadTail(Drop(line, c))[1].start,
                     end |-> HeadTail(Drop(line, c))[1].end]) :
               c \in {x \in HeadColons(line) : \A y \in HeadColons(line) : x <= y} } : TRUE

\* the characters that are atoms of their own
Punct == {" ", "\t", "-", "*", ":", ",", "+"}

\* meta_head.match(line) (egtparser.py:22)
MetaHeadMatch(line) ==
    /\ line # <<>>
    /\ line[1] \notin Punct
    /\ \E c \in 2..Len(line) : line[c] = ":"

\* ------------------------------------------------------------------------
\* LogParser (egtparser.py:206-277)
\* ------------------------------------------------------------------------
\* Log(self.begin, self.until, "\n".join(self.logbody)) (egtparser.py:216)
MkLog(b, u, body) == [begin |-> b, until |-> u, body |-> body]

\* the until of a head with an end time (egtparser.py:261-264), variant:
\* no correction across midnight
UntilOfSameDay(date, b, et) == Combine(date, et)

\* the until of a head with an end time (egtparser.py:261-264)
UntilOf(date, b, et) ==
    LET u == Combine(date, et)
    IN  IF DtLess(u, b) THEN AddDay(u) ELSE u

\* the rest of the try block once the date and the start time are known
\* (egtparser.py:259-267)
HeadTimes(m, date, st, default, until0) ==
    IF st = None
    THEN [ok |-> FALSE, begin |-> None, until |-> until0, default |-> default]
    ELSE IF m.end = None
    THEN [ok |-> TRUE, begin |-> Some(Combine(date, st[1])), until |-> None,
          default |-> default]
    ELSE IF ParseTime(m.end[1][1], m.end[1][2]) = None
    THEN [ok |-> FALSE, begin |-> Some(Combine(date, st[1])), until |-> until0,
          default |-> default]
    ELSE [ok |-> TRUE, begin |-> Some(Combine(date, st[1])),
          until |-> Some(UntilOf(date, Combine(date, st[1]),
                                 ParseTime(m.end[1][1], m.end[1][2])[1])),
          default |-> default]

\* the date of the head: the parsed date, or self.ep.default when it does
\* not parse (egtparser.py:254-258)
HeadDate(p) == IF p.d = None THEN p.default ELSE p.d[1]

HeadParsed(m, p, until0) ==
    HeadTimes(m, HeadDate(p), ParseTime(m.start[1], m.start[2]), p.default, until0)

\* the body of the try block after the flush (egtparser.py:254-267), for
\* the match m, the default date, and the until left by earlier lines.
\* ok = FALSE is the ValueError of parsetime; begin and until are the
\* fields as the block leaves them (begin = None: not assigned).
HeadOutcome(m, default, until0) ==
    CHOOSE r \in {HeadParsed(m, p, until0) : p \in {EPParse(m.date, default, TRUE)}} : TRUE

\* ------------------------------------------------------------------------
\* BodyParser (egtparser.py:280-380)
\* ------------------------------------------------------------------------
\* Spacer, FreeformText, NextActions and SomedayMaybe (egtparser.py:153-198).
\* copy is an observation: 0, or i for the block made by na.at of the i-th
\* event of a header.
MkBlock(tag, ls, contexts, event, copy) ==
    [tag |-> tag, lines |-> ls, contexts |-> contexts, event |-> event, copy |-> copy]

\* l.endswith(":") (egtparser.py:317)
EndsWithColon(l) == l # <<>> /\ l[Len(l)] = ":"

FirstComma(s) == CHOOSE c \in 1..Len(s) : s[c] = "," /\ \A j \in 1..(c - 1) : s[j] # ","

\* re.split(r"\s*,\s*", s) (egtparser.py:323)
RECURSIVE SplitComma(_)
SplitComma(s) ==
    IF \A c \in 1..Len(s) : s[c] # "," THEN <<s>>
    ELSE CHOOSE res \in
             { <<RStrip(SubSeq(s, 1, FirstComma(s) - 1), {" ", "\t"})>> \o SplitComma(rest) :
               rest \in {LStrip(Drop(s, FirstComma(s)), {" ", "\t"})} } : TRUE

\* the tokens of a context line (egtparser.py:323)
HeaderTokens(l) ==
    CHOOSE tokens \in {SplitComma(s) : s \in {Strip(l, {" ", ":", "\t"})}} : TRUE

\* one iteration of the loop over the tokens (egtparser.py:323-328)
HeaderToken(acc, t, r) ==
    [contexts |-> IF r.ev = None THEN Append(acc.contexts, t) ELSE acc.contexts,
     events |-> IF r.ev = None THEN acc.events ELSE Append(acc.events, r.ev[1]),
     default |-> r.default]

RECURSIVE HeaderFold(_, _, _)
HeaderFold(acc, tokens, k) ==
    IF k > Len(tokens) THEN acc
    ELSE CHOOSE res \in
             { HeaderFold(nxt, tokens, k + 1) :
               nxt \in { HeaderToken(acc, tokens[k], r) :
                         r \in {ParseDate(tokens[k], acc.default)} } } : TRUE

\* contexts, events and eparser.default after a context line
\* (egtparser.py:321-328)
HeaderParse(l, default) ==
    CHOOSE h \in
        { HeaderFold([contexts |-> <<>>, events |-> <<>>, default |-> default], tokens, 1) :
          tokens \in {HeaderTokens(l)} } : TRUE

SeqToSet(q) == {q[k] : k \in 1..Len(q)}

\* frozenset(contexts) if contexts is not None else frozenset()
\* (egtparser.py:172)
ContextSet(contexts) == IF contexts = None THEN {} ELSE SeqToSet(contexts[1])

\* BodyParser.__init__ and the locals of its methods (egtparser.py:281-288):
\* lines is the GeneratorLookahead, pc the loop the parser is in, na the
\* lines of the NextActions under construction, lineno the local of
\* parse_next_action_list (None while unbound)
BPInit(now) ==
    [lines |-> GLInit, parsed |-> <<>>, pc |-> "next_actions",
     na |-> <<>>, contexts |-> None, events |-> <<>>,
     last_indent |-> None, lineno |-> None,
     eparser_default |-> Midnight(now)]

\* add_to_spacer, add_to_freeform (egtparser.py:290-298)
AddToNewBlock(parsed, tag, l) == Append(parsed, MkBlock(tag, <<l>>, {}, None, 0))

AddTo(parsed, tag, l) ==
    IF parsed = <<>> \/ parsed[Len(parsed)].tag # tag
    THEN Append(parsed, MkBlock(tag, <<l>>, {}, None, 0))
    ELSE [parsed EXCEPT ![Len(parsed)].lines = Append(@, l)]

\* which branch the next iteration takes; pk is self.lines.peek()
NextActionsBranch(pk) ==
    IF pk.stop THEN "end"
    ELSE IF pk.val[1].mark = "*" THEN "star"
    ELSE IF pk.val[1].ind = 0 /\ EndsWithColon(pk.val[1].line) THEN "context"
    ELSE IF pk.val[1].mark = "-" THEN "dash"
    ELSE IF pk.val[1].mark = " " THEN "spacer"
    ELSE "freeform"

\* the last_indent the list loop compares with (egtparser.py:359-360)
ListIndent(b, pk) == IF b.last_indent = None THEN pk.val[1].ind ELSE b.last_indent[1]

\* variant: a star inside a list does not end it
ListBranchNoStar(b, pk) ==
    IF pk.stop THEN "list_end"
    ELSE IF pk.val[1].ind < ListIndent(b, pk) THEN "list_end"
    ELSE "list_step"

\* the loop of parse_next_action_list (egtparser.py:353-365)
ListBranch(b, pk) ==
    IF pk.stop THEN "list_end"
    ELSE IF pk.val[1].mark = "*" THEN "list_end"
    ELSE IF pk.val[1].ind < ListIndent(b, pk) THEN "list_end"
    ELSE "list_step"

BPBranch(b, items) ==
    IF b.pc = "next_actions" THEN NextActionsBranch(GLPeek(b.lines, items))
    ELSE IF b.pc = "list" THEN ListBranch(b, GLPeek(b.lines, items))
    ELSE IF b.pc = "someday"
    THEN (IF GLPop(b.lines, items).stop THEN "someday_end" ELSE "someday_step")
    ELSE "none"

\* the blocks appended when a list ends (egtparser.py:367-373)
ListBlocks(b) ==
    IF b.events = <<>>
    THEN <<MkBlock("next-actions", b.na, ContextSet(b.contexts), None, 0)>>
    ELSE [k \in 1..Len(b.events) |->
            MkBlock("next-actions", b.na, ContextSet(b.contexts), Some(b.events[k]), k)]

\* a context line: the tokens are parsed, parse_next_action_list starts and
\* pops the line (egtparser.py:317-329, 345-352)
StepContext(b, pk, h, items) ==
    [b EXCEPT !.lines = GLPop(pk.la, items).la,
              !.pc = "list",
              !.na = <<pk.val[1].line>>,
              !.contexts = Some(h.contexts),
              !.events = h.events,
              !.eparser_default = h.default,
              !.last_indent = None,
              !.lineno = None]

\* a dash line: parse_next_action_list() starts (egtparser.py:330-333,
\* 345-352)
StepDash(b, pk) ==
    [b EXCEPT !.lines = pk.la,
              !.pc = "list",
              !.na = <<>>,
              !.contexts = None,
              !.events = <<>>,
              !.last_indent = None,
              !.lineno = None]

\* one line is added to the list (egtparser.py:355-365)
StepList(b, pk, items) ==
    [b EXCEPT !.lines = GLPop(pk.la, items).la,
              !.na = Append(@, pk.val[1].line),
              !.last_indent = Some(pk.val[1].ind),
              !.lineno = Some(pk.val[1].num)]

\* the list ends (egtparser.py:356-358, 361-362, 367-373); a peek that
\* returned binds lineno
StepListEnd(b, pk) ==
    [b EXCEPT !.lines = pk.la,
              !.lineno = IF pk.stop THEN @ ELSE Some(pk.val[1].num),
              !.parsed = @ \o ListBlocks(b),
              !.pc = "next_actions"]

\* variant: the line is added but not popped
StepAddNoPop(b, pk, tag, items) ==
    [b EXCEPT !.lines = pk.la,
              !.parsed = AddTo(@, tag, pk.val[1].line)]

\* a blank or freeform line (egtparser.py:334-343)
StepAdd(b, pk, tag, items) ==
    [b EXCEPT !.lines = GLPop(pk.la, items).la,
              !.parsed = AddTo(@, tag, pk.val[1].line)]

\* the terminator: parse_next_actions returns and parse_someday_maybe
\* appends its block (egtparser.py:313-316, 376-377)
StepStar(b, pk) ==
    [b EXCEPT !.lines = pk.la,
              !.parsed = Append(@, MkBlock("someday-maybe", <<>>, {}, None, 0)),
              !.pc = "someday"]

\* one line goes to the someday/maybe block (egtparser.py:379-380)
StepSomeday(b, pp) ==
    [b EXCEPT !.lines = pp.la,
              !.parsed[Len(b.parsed)].lines = Append(@, pp.val[1].line)]

\* the log.debug calls at egtparser.py:368 and 372 read the local lineno,
\* which is unbound when the first peek of the list loop raised
\* StopIteration
ListEndRaises(b, pk) == pk.stop /\ b.lineno = None

\* one iteration of the loop the parser is in; only called for a branch
\* other than "none"
BPStep(b, items) ==
    LET br == BPBranch(b, items) IN
    IF br \in {"someday_step", "someday_end"}
    THEN (IF br = "someday_end" THEN [b EXCEPT !.pc = "done"]
          ELSE StepSomeday(b, GLPop(b.lines, items)))
    ELSE IF br = "end" THEN [b EXCEPT !.pc = "done"]
    ELSE IF br = "star" THEN StepStar(b, GLPeek(b.lines, items))
    ELSE IF br = "context"
    THEN CHOOSE nb \in
             { StepContext(b, GLPeek(b.lines, items), h, items) :
               h \in {HeaderParse(GLPeek(b.lines, items).val[1].line,
                                  b.eparser_default)} } : TRUE
    ELSE IF br = "dash" THEN StepDash(b, GLPeek(b.lines, items))
    ELSE IF br = "spacer" THEN StepAdd(b, GLPeek(b.lines, items), "spacer", items)
    ELSE IF br = "freeform" THEN StepAdd(b, GLPeek(b.lines, items), "freeform", items)
    ELSE IF br = "list_step" THEN StepList(b, GLPeek(b.lines, items), items)
    ELSE IF ListEndRaises(b, GLPeek(b.lines, items))
    THEN [b EXCEPT !.pc = "raised"]
    ELSE StepListEnd(b, GLPeek(b.lines, items))

\* parse_body (egtparser.py:300-306): the loops run until StopIteration
\* ends them or an exception escapes
RECURSIVE BPRun(_, _)
BPRun(b, items) ==
    IF b.pc \in {"done", "raised"} THEN b ELSE BPRun(BPStep(b, items), items)

\* ------------------------------------------------------------------------
\* State
\* ------------------------------------------------------------------------
VARIABLES
    \* annotate_with_indent_and_markers as a running generator
    ann_lines,          \* its argument `lines`
    ann_lineno,         \* how many input lines the for loop has taken
    ann_st,             \* last_indent, last_empty_lines and the lines yielded
    ann_pc,             \* "idle", "loop" or "done"
    \* a GeneratorLookahead and its callers' observations
    gen_items,          \* what the wrapped generator yields
    la,                 \* pos, has_lookahead, lookahead
    popped,             \* the values returned by pop so far
    last_call,          \* the most recent call and its outcome
    calls,              \* number of calls made
    \* ProjectParser
    lines,              \* self.lines, the document
    lineno,             \* self.lineno, the cursor (0-based)
    pp_pc,              \* where ProjectParser.parse is
    raised,             \* the exception that ended parse, or "none"
    log,                \* self.log
    today,              \* datetime.date.today()
    \* BodyParser
    bp,                 \* the BodyParser made by ProjectParser.parse_body
    bp_items,           \* what its annotate generator yields
    \* LogParser
    begin,              \* self.begin
    until,              \* self.until
    logbody,            \* self.logbody
    entries,            \* the local list `entries` of LogParser.parse
    ep_default,         \* self.ep.default
    \* observations of the log segmenter
    head_at,            \* number of the line that assigned begin, 0 if None
    logbody_at,         \* the line numbers of the lines in logbody
    entries_at,         \* per flushed block: head_at and logbody_at
    year_line,          \* the year of the last stand-alone year line, 0 if none
    \* an EventParser used on its own, and its callers' observations
    ev_default,         \* self.default
    ev_call,            \* the most recent call: its text, self.default before
                        \* it, and what it returned
    ev_calls            \* number of calls made

annVars == <<ann_lines, ann_lineno, ann_st, ann_pc>>
glVars == <<gen_items, la, popped, last_call, calls>>
ppVars == <<lines, lineno, pp_pc, raised, log>>
envVars == <<today, dateutil_blank>>
evVars == <<ev_default, ev_call, ev_calls>>
bpVars == <<bp, bp_items>>
lpVars == <<begin, until, logbody, entries, ep_default>>
lpObs == <<head_at, logbody_at, entries_at, year_line>>
logVars == <<lpVars, lpObs>>
vars == <<annVars, glVars, ppVars, envVars, bpVars, lpVars, lpObs, evVars>>

NoCall == [op |-> "none", before |-> 0, stop |-> FALSE, val |-> <<>>]

AnnIdle ==
    /\ ann_lines = <<>>
    /\ ann_lineno = 0
    /\ ann_st = AnnInit
    /\ ann_pc = "idle"

GLIdle ==
    /\ gen_items = <<>>
    /\ la = GLInit
    /\ popped = <<>>
    /\ last_call = NoCall
    /\ calls = 0

\* datetime.date.today() of the runs
TodaySet == {MkDT(2026, 11, 1, 0, 0, 0), MkDT(2024, 2, 29, 0, 0, 0)}

NoEvCall == [op |-> "none", text |-> <<>>, before |-> MkDT(1, 1, 1, 0, 0, 0), ev |-> None, d |-> None]

\* EventParser.__init__ (egtparser.py:100-105)
EVIdle ==
    /\ ev_default = Midnight(today)
    /\ ev_call = NoEvCall
    /\ ev_calls = 0

\* LogParser.__init__ (egtparser.py:207-213)
LPInit ==
    /\ begin = None
    /\ until = None
    /\ logbody = <<>>
    /\ entries = <<>>
    /\ ep_default = MkDT(today.year, 1, 1, 0, 0, 0)
    /\ head_at = 0
    /\ logbody_at = <<>>
    /\ entries_at = <<>>
    /\ year_line = 0

BPIdle ==
    /\ bp = BPInit(today)
    /\ bp_items = <<>>

PPIdle ==
    /\ lines = <<>>
    /\ lineno = 0
    /\ pp_pc = "idle"
    /\ raised = "none"
    /\ log = <<>>
    /\ today \in TodaySet
    /\ dateutil_blank \in DateutilBlankSet
    /\ EVIdle
    /\ LPInit
    /\ BPIdle

\* ------------------------------------------------------------------------
\* Inputs
\* ------------------------------------------------------------------------
SeqsUpTo(S, n) == UNION {[1..m -> S] : m \in 0..n}

\* raw lines given to the classifier
AnnLineSet ==
    { <<>>, <<" ">>, <<"a">>, <<" ", "a">>, <<" ", " ", "a">>,
      <<"-", " ", "a">>, <<" ", "-", " ", "a">>, <<" ", "*", "a">>, <<"\t", "a">> }

\* ------------------------------------------------------------------------
\* Specification of the line classifier alone
\* ------------------------------------------------------------------------
InitAnnotate ==
    /\ ann_lines \in SeqsUpTo(AnnLineSet, MaxAnnLines)
    /\ ann_lineno = 0
    /\ ann_st = AnnInit
    /\ ann_pc = "loop"
    /\ GLIdle
    /\ PPIdle

\* an empty line is buffered (egtparser.py:40-43)
AnnotateEmpty ==
    /\ ann_pc = "loop"
    /\ ann_lineno < Len(ann_lines)
    /\ IsBlank(ann_lines[ann_lineno + 1])
    /\ ann_st' = AnnStep(ann_st, 1, ann_lineno, ann_lines[ann_lineno + 1])
    /\ ann_lineno' = ann_lineno + 1
    /\ UNCHANGED <<ann_lines, ann_pc, glVars, ppVars, envVars, evVars, bpVars, logVars>>

\* a non-empty line is classified and yielded after the buffered empty
\* lines (egtparser.py:44-71)
AnnotateLine ==
    /\ ann_pc = "loop"
    /\ ann_lineno < Len(ann_lines)
    /\ ~IsBlank(ann_lines[ann_lineno + 1])
    /\ ann_st' = AnnStep(ann_st, 1, ann_lineno, ann_lines[ann_lineno + 1])
    /\ ann_lineno' = ann_lineno + 1
    /\ UNCHANGED <<ann_lines, ann_pc, glVars, ppVars, envVars, evVars, bpVars, logVars>>

\* the input is exhausted: the trailing empty lines are yielded
\* (egtparser.py:72-73)
AnnotateEnd ==
    /\ ann_pc = "loop"
    /\ ann_lineno = Len(ann_lines)
    /\ ann_st' = AnnFinish(ann_st, 1)
    /\ ann_pc' = "done"
    /\ UNCHANGED <<ann_lines, ann_lineno, glVars, ppVars, envVars, evVars, bpVars, logVars>>

NextAnnotate == AnnotateEmpty \/ AnnotateLine \/ AnnotateEnd

SpecAnnotate == InitAnnotate /\ [][NextAnnotate]_vars

\* ------------------------------------------------------------------------
\* Specification of the lookahead cursor alone: any interleaving of peek
\* and pop over the classified lines of a bounded input
\* ------------------------------------------------------------------------
InitCursor ==
    /\ AnnIdle
    /\ PPIdle
    /\ \E ls \in SeqsUpTo(AnnLineSet, MaxAnnLines) : gen_items = Annotate(ls, 1)
    /\ la = GLInit
    /\ popped = <<>>
    /\ last_call = NoCall
    /\ calls = 0

CallPeek ==
    /\ calls < MaxCursorCalls
    /\ LET r == GLPeek(la, gen_items)
       IN  /\ la' = r.la
           /\ last_call' = [op |-> "peek", before |-> Len(popped),
                            stop |-> r.stop, val |-> r.val]
    /\ calls' = calls + 1
    /\ UNCHANGED <<gen_items, popped, annVars, ppVars, envVars, evVars, bpVars, logVars>>

CallPop ==
    /\ calls < MaxCursorCalls
    /\ LET r == GLPop(la, gen_items)
       IN  /\ la' = r.la
           /\ popped' = IF r.stop THEN popped ELSE popped \o r.val
           /\ last_call' = [op |-> "pop", before |-> Len(popped),
                            stop |-> r.stop, val |-> r.val]
    /\ calls' = calls + 1
    /\ UNCHANGED <<gen_items, annVars, ppVars, envVars, evVars, bpVars, logVars>>

NextCursor == CallPeek \/ CallPop

SpecCursor == InitCursor /\ [][NextCursor]_vars

\* ------------------------------------------------------------------------
\* Specification of the log segmenter: ProjectParser.parse_log on a
\* document whose first line is the line at the log position
\* ------------------------------------------------------------------------
LogLineSet ==
    { <<"2015">>,
      <<"15", " ", "march", ":", " ", "9", ":", "00", "-", "12", ":", "00">>,
      <<"16", " ", "march", ":", " ", "22", ":", "00", "-", "2", ":", "00">>,
      <<"15", " ", "march", ":", " ", "9", ":", "00", "-">>,
      <<"16", " ", "march", ":">>,
      <<"16", " ", "march", ":", " ", "25", ":", "00", "-", "12", ":", "00">>,
      <<"16", " ", "march", ":", " ", "10", ":", "00", "-", "12", ":", "75">>,
      <<"-", "-", " ", "16", " ", "april">>,
      <<" ", "-", " ", "tested">>,
      <<>> }

\* ProjectParser.peek (egtparser.py:392-400)
PPPeek == IF lineno < Len(lines) THEN Some(lines[lineno + 1]) ELSE None

\* `not line` for the value of lines.next() (egtparser.py:233, 450)
NoNextLine == IF PPPeek = None THEN TRUE ELSE PPPeek[1] = <<>>

IsLogLine(l) == LogDateMatch(l) # None \/ LogHeadMatch(l) # None

InitLog ==
    /\ AnnIdle
    /\ GLIdle
    /\ lines \in SeqsUpTo(LogLineSet, MaxLogLines)
    \* parse_meta and skip_empty_lines left the cursor on the first line
    /\ lines # <<>>
    /\ lines[1] # <<>>
    /\ (IsLogLine(lines[1]) \/ ~MetaHeadMatch(lines[1]))
    /\ lineno = 0
    /\ pp_pc = "parse_log"
    /\ raised = "none"
    /\ log = <<>>
    /\ today \in TodaySet
    /\ dateutil_blank \in DateutilBlankSet
    /\ EVIdle
    /\ LPInit
    /\ BPIdle

\* parse_log, is_log is false (egtparser.py:463-465)
ParseLogNone ==
    /\ pp_pc = "parse_log"
    /\ PPPeek # None
    /\ ~IsLogLine(PPPeek[1])
    /\ log' = <<>>
    /\ pp_pc' = "skip2"
    /\ UNCHANGED <<lines, lineno, raised, envVars, evVars, bpVars, logVars, annVars, glVars>>

\* parse_log, is_log is true: LogParser.parse starts (egtparser.py:459-462)
ParseLogStart ==
    /\ pp_pc = "parse_log"
    /\ PPPeek # None
    /\ IsLogLine(PPPeek[1])
    /\ pp_pc' = "log_loop"
    /\ UNCHANGED <<lines, lineno, raised, log, envVars, evVars, bpVars, logVars, annVars, glVars>>

\* flush (egtparser.py:215-220) when begin is not None: self.end, not
\* self.until, is reset
FlushedEntriesKept == entries
FlushedEntries == IF begin # None THEN Append(entries, MkLog(begin, until, logbody))
                  ELSE entries
FlushedEntriesAt ==
    IF begin # None
    THEN Append(entries_at, [head |-> head_at, body_at |-> logbody_at])
    ELSE entries_at
FlushedBody == IF begin # None THEN <<>> ELSE logbody
FlushedBodyAt == IF begin # None THEN <<>> ELSE logbody_at

\* lines.next() gives None or an empty line: the loop ends, the open block
\* is flushed (egtparser.py:232-233, 274-277) and parse_log stores the
\* entries (egtparser.py:462)
LogEnd ==
    /\ pp_pc = "log_loop"
    /\ NoNextLine
    /\ lineno' = IF PPPeek = None THEN lineno ELSE lineno + 1
    /\ entries' = FlushedEntries
    /\ entries_at' = FlushedEntriesAt
    /\ logbody' = FlushedBody
    /\ logbody_at' = FlushedBodyAt
    /\ begin' = None
    /\ head_at' = 0
    /\ log' = FlushedEntries
    /\ pp_pc' = "skip2"
    /\ UNCHANGED <<lines, raised, envVars, evVars, bpVars, until, ep_default, year_line, annVars, glVars>>

\* a stand-alone date line (egtparser.py:236-245)
LogDate ==
    /\ pp_pc = "log_loop"
    /\ ~NoNextLine
    /\ \E line \in {PPPeek[1]} : \E mo \in {LogDateMatch(line)} :
           /\ mo # None
           /\ entries' = FlushedEntries
           /\ entries_at' = FlushedEntriesAt
           /\ logbody' = FlushedBody
           /\ logbody_at' = FlushedBodyAt
           /\ begin' = None
           /\ head_at' = 0
           /\ ep_default' = EPParse(mo[1], ep_default, TRUE).default
           /\ year_line' = IF IsNumeral(line[1]) THEN NumVal[line[1]] ELSE year_line
    /\ lineno' = lineno + 1
    /\ UNCHANGED <<lines, pp_pc, raised, log, envVars, evVars, bpVars, until, annVars, glVars>>

\* a log head whose times are valid (egtparser.py:248-267)
LogHead ==
    /\ pp_pc = "log_loop"
    /\ ~NoNextLine
    /\ \E line \in {PPPeek[1]} : \E mo \in {LogHeadMatch(line)} :
           /\ LogDateMatch(line) = None
           /\ mo # None
           /\ \E r \in {HeadOutcome(mo[1], ep_default, until)} :
                  /\ r.ok
                  /\ entries' = FlushedEntries
                  /\ entries_at' = FlushedEntriesAt
                  /\ logbody' = FlushedBody
                  /\ logbody_at' = FlushedBodyAt
                  /\ begin' = r.begin
                  /\ until' = r.until
                  /\ ep_default' = r.default
                  /\ head_at' = lineno + 1
    /\ lineno' = lineno + 1
    /\ UNCHANGED <<lines, pp_pc, raised, log, envVars, evVars, bpVars, year_line, annVars, glVars>>

\* a log head one of whose times raises ValueError: the except clause
\* logs it and the line is appended to logbody (egtparser.py:248-272)
LogHeadError ==
    /\ pp_pc = "log_loop"
    /\ ~NoNextLine
    /\ \E line \in {PPPeek[1]} : \E mo \in {LogHeadMatch(line)} :
           /\ LogDateMatch(line) = None
           /\ mo # None
           /\ \E r \in {HeadOutcome(mo[1], ep_default, until)} :
                  /\ ~r.ok
                  /\ entries' = FlushedEntries
                  /\ entries_at' = FlushedEntriesAt
                  /\ logbody' = Append(FlushedBody, line)
                  /\ logbody_at' = Append(FlushedBodyAt, lineno + 1)
                  /\ begin' = r.begin
                  /\ until' = r.until
                  /\ ep_default' = r.default
                  /\ head_at' = IF r.begin # None THEN lineno + 1 ELSE 0
    /\ lineno' = lineno + 1
    /\ UNCHANGED <<lines, pp_pc, raised, log, envVars, evVars, bpVars, year_line, annVars, glVars>>

\* any other line is appended to logbody (egtparser.py:271-272)
LogBody ==
    /\ pp_pc = "log_loop"
    /\ ~NoNextLine
    /\ \E line \in {PPPeek[1]} :
           /\ LogDateMatch(line) = None
           /\ LogHeadMatch(line) = None
           /\ logbody' = Append(logbody, line)
           /\ logbody_at' = Append(logbody_at, lineno + 1)
    /\ lineno' = lineno + 1
    /\ UNCHANGED <<lines, pp_pc, raised, log, envVars, evVars, bpVars, begin, until, entries,
                   ep_default, head_at, entries_at, year_line, annVars, glVars>>

NextLog ==
    \/ ParseLogNone
    \/ ParseLogStart
    \/ LogEnd
    \/ LogDate
    \/ LogHead
    \/ LogHeadError
    \/ LogBody

SpecLog == InitLog /\ [][NextLog]_vars

\* ------------------------------------------------------------------------
\* Specification of the action-list parser: ProjectParser.parse_body on a
\* document made of a one-line log, an empty line and the body
\* ------------------------------------------------------------------------
BodyLineSet ==
    { <<>>,
      <<"home", ",", " ", "work", ":">>,
      <<"15", ",", " ", "home", ",", " ", "16", " ", "march", ":">>,
      <<" ", "-", " ", "a">>,
      <<"-", " ", "b">>,
      <<" ", " ", " ", " ", "c">>,
      <<"text">>,
      <<"*", " ", "someday">>,
      <<" ", "*", " ", "x">> }

BodyPrefix == << <<"2015">>, <<>> >>

InitBody ==
    /\ AnnIdle
    /\ GLIdle
    /\ \E body \in SeqsUpTo(BodyLineSet, MaxBodyLines) :
          \* skip_empty_lines left the cursor on a non-empty line or at the end
          /\ (IF body = <<>> THEN TRUE ELSE body[1] # <<>>)
          /\ lines = BodyPrefix \o body
    /\ lineno = Len(BodyPrefix)
    /\ pp_pc = "parse_body"
    /\ raised = "none"
    /\ log = <<>>
    /\ today \in TodaySet
    /\ dateutil_blank \in DateutilBlankSet
    /\ EVIdle
    /\ LPInit
    /\ BPIdle

\* the lines given to the BodyParser (egtparser.py:469)
BodyInput == Drop(lines, lineno)

\* ProjectParser.parse_body builds the BodyParser (egtparser.py:467-470,
\* 281-288) and parse_next_actions its EventParser (egtparser.py:309)
ParseBodyStart ==
    /\ pp_pc = "parse_body"
    /\ bp' = BPInit(today)
    /\ bp_items' = Annotate(BodyInput, lineno)
    /\ pp_pc' = "body"
    /\ UNCHANGED <<lines, lineno, raised, log, envVars, evVars, logVars, annVars, glVars>>

\* one iteration of the loop the BodyParser is in; when parse_body returns,
\* self.body = bp.parsed (egtparser.py:300-306, 471)
BodyStep ==
    /\ pp_pc = "body"
    /\ bp' = BPStep(bp, bp_items)
    /\ pp_pc' = IF bp'.pc = "done" THEN "done"
                ELSE IF bp'.pc = "raised" THEN "raised" ELSE "body"
    /\ raised' = IF bp'.pc = "raised" THEN "UnboundLocalError" ELSE raised
    /\ UNCHANGED <<lines, lineno, log, bp_items, envVars, evVars, logVars, annVars, glVars>>

\* peek raises StopIteration in parse_next_actions (egtparser.py:311, 304)
NextActionsEnd ==
    /\ BPBranch(bp, bp_items) = "end"
    /\ BodyStep

\* the terminator line (egtparser.py:313-316, 376-377)
NextActionsStar ==
    /\ BPBranch(bp, bp_items) = "star"
    /\ BodyStep

\* a context line (egtparser.py:317-329, 345-352)
NextActionsContext ==
    /\ BPBranch(bp, bp_items) = "context"
    /\ BodyStep

\* a contextless list (egtparser.py:330-333, 345-352)
NextActionsDash ==
    /\ BPBranch(bp, bp_items) = "dash"
    /\ BodyStep

\* an empty line (egtparser.py:334-338)
NextActionsSpacer ==
    /\ BPBranch(bp, bp_items) = "spacer"
    /\ BodyStep

\* freeform text (egtparser.py:339-343)
NextActionsFreeform ==
    /\ BPBranch(bp, bp_items) = "freeform"
    /\ BodyStep

\* a line joins the list (egtparser.py:355-365)
ListStep ==
    /\ BPBranch(bp, bp_items) = "list_step"
    /\ BodyStep

\* the list ends and its blocks are appended (egtparser.py:356-358,
\* 361-362, 367-373)
ListEnd ==
    /\ BPBranch(bp, bp_items) = "list_end"
    /\ ~ListEndRaises(bp, GLPeek(bp.lines, bp_items))
    /\ BodyStep

\* the list ends at the end of the input right after its context line:
\* lineno is unbound at egtparser.py:368 and 372
ListEndUnbound ==
    /\ BPBranch(bp, bp_items) = "list_end"
    /\ ListEndRaises(bp, GLPeek(bp.lines, bp_items))
    /\ BodyStep

\* a line joins the someday/maybe block (egtparser.py:379-380)
SomedayStep ==
    /\ BPBranch(bp, bp_items) = "someday_step"
    /\ BodyStep

\* pop raises StopIteration in parse_someday_maybe (egtparser.py:379, 304)
SomedayEnd ==
    /\ BPBranch(bp, bp_items) = "someday_end"
    /\ BodyStep

NextBody ==
    \/ ParseBodyStart
    \/ NextActionsEnd
    \/ NextActionsStar
    \/ NextActionsContext
    \/ NextActionsDash
    \/ NextActionsSpacer
    \/ NextActionsFreeform
    \/ ListStep
    \/ ListEnd
    \/ ListEndUnbound
    \/ SomedayStep
    \/ SomedayEnd

SpecBody == InitBody /\ [][NextBody]_vars

\* ------------------------------------------------------------------------
\* Specification of the document parser: ProjectParser.parse on a bounded
\* document (lines are already stripped of trailing white space,
\* egtparser.py:479-481)
\* ------------------------------------------------------------------------
DocLineSet ==
    { <<>>,
      <<"Name", ":", " ", "testprj">>,
      <<"2015">>,
      <<"15", " ", "march", ":", " ", "9", ":", "00", "-", "12", ":", "00">>,
      <<"16", " ", "march", ":", " ", "25", ":", "00", "-", "12", ":", "00">>,
      <<" ", "-", " ", "tested">>,
      <<"home", ":">> }

InitDoc ==
    /\ AnnIdle
    /\ GLIdle
    /\ lines \in SeqsUpTo(DocLineSet, MaxDocLines)
    /\ lineno = 0
    /\ pp_pc = "parse_meta"
    /\ raised = "none"
    /\ log = <<>>
    /\ today \in TodaySet
    /\ dateutil_blank \in DateutilBlankSet
    /\ EVIdle
    /\ LPInit
    /\ BPIdle

\* parse_meta at the end of the input: peek gives None and the match
\* raises TypeError (egtparser.py:429, 435)
ParseMetaRaise ==
    /\ pp_pc = "parse_meta"
    /\ PPPeek = None
    /\ pp_pc' = "raised"
    /\ raised' = "TypeError"
    /\ UNCHANGED <<lines, lineno, log, envVars, evVars, bpVars, logVars, annVars, glVars>>

\* parse_meta: the first line is a log line, or is no header
\* (egtparser.py:434-440)
ParseMetaNone ==
    /\ pp_pc = "parse_meta"
    /\ PPPeek # None
    /\ (IF PPPeek = None THEN FALSE
        ELSE IsLogLine(PPPeek[1]) \/ ~MetaHeadMatch(PPPeek[1]))
    /\ pp_pc' = "skip1"
    /\ UNCHANGED <<lines, lineno, raised, log, envVars, evVars, bpVars, logVars, annVars, glVars>>

\* the number of lines next() returns before one is empty
RECURSIVE NonEmptyRun(_, _)
NonEmptyRun(ls, k) ==
    IF k >= Len(ls) THEN 0
    ELSE IF ls[k + 1] = <<>> THEN 0
    ELSE 1 + NonEmptyRun(ls, k + 1)

\* the cursor after the loop of parse_meta: the empty line that ends the
\* block is consumed too (egtparser.py:447-451)
AfterMeta(ls, k) ==
    IF k + NonEmptyRun(ls, k) < Len(ls) THEN k + NonEmptyRun(ls, k) + 1
    ELSE k + NonEmptyRun(ls, k)

\* parse_meta: the header block is read (egtparser.py:442-455)
ParseMeta ==
    /\ pp_pc = "parse_meta"
    /\ PPPeek # None
    /\ (IF PPPeek = None THEN FALSE
        ELSE ~IsLogLine(PPPeek[1]) /\ MetaHeadMatch(PPPeek[1]))
    /\ lineno' = AfterMeta(lines, lineno)
    /\ pp_pc' = "skip1"
    /\ UNCHANGED <<lines, raised, log, envVars, evVars, bpVars, logVars, annVars, glVars>>

\* variant: skip_empty_lines stops after one line
RECURSIVE EmptyRunOne(_, _)
EmptyRunOne(ls, k) ==
    IF k >= Len(ls) THEN 0
    ELSE IF ls[k + 1] # <<>> THEN 0
    ELSE 1

\* the number of empty lines at the cursor
RECURSIVE EmptyRun(_, _)
EmptyRun(ls, k) ==
    IF k >= Len(ls) THEN 0
    ELSE IF ls[k + 1] # <<>> THEN 0
    ELSE 1 + EmptyRun(ls, k + 1)

\* skip_empty_lines before parse_log (egtparser.py:421-426, 489)
SkipEmptyLinesBeforeLog ==
    /\ pp_pc = "skip1"
    /\ lineno' = lineno + EmptyRun(lines, lineno)
    /\ pp_pc' = "parse_log"
    /\ UNCHANGED <<lines, raised, log, envVars, evVars, bpVars, logVars, annVars, glVars>>

\* parse_log at the end of the input: is_log matches None and raises
\* TypeError (egtparser.py:226-227, 459)
ParseLogRaise ==
    /\ pp_pc = "parse_log"
    /\ PPPeek = None
    /\ pp_pc' = "raised"
    /\ raised' = "TypeError"
    /\ UNCHANGED <<lines, lineno, log, envVars, evVars, bpVars, logVars, annVars, glVars>>

\* skip_empty_lines before parse_body (egtparser.py:421-426, 494)
SkipEmptyLinesBeforeBody ==
    /\ pp_pc = "skip2"
    /\ lineno' = lineno + EmptyRun(lines, lineno)
    /\ pp_pc' = "parse_body"
    /\ UNCHANGED <<lines, raised, log, envVars, evVars, bpVars, logVars, annVars, glVars>>

\* parse_body, from the construction of the BodyParser to self.body
\* (egtparser.py:467-471)
ParseBody ==
    /\ pp_pc = "parse_body"
    /\ bp_items' = Annotate(BodyInput, lineno)
    /\ bp' = BPRun(BPInit(today), Annotate(BodyInput, lineno))
    /\ pp_pc' = IF bp'.pc = "raised" THEN "raised" ELSE "done"
    /\ raised' = IF bp'.pc = "raised" THEN "UnboundLocalError" ELSE raised
    /\ UNCHANGED <<lines, lineno, log, envVars, evVars, logVars, annVars, glVars>>

NextDoc ==
    \/ ParseMetaRaise
    \/ ParseMetaNone
    \/ ParseMeta
    \/ SkipEmptyLinesBeforeLog
    \/ ParseLogRaise
    \/ ParseLogNone
    \/ ParseLogStart
    \/ LogEnd
    \/ LogDate
    \/ LogHead
    \/ LogHeadError
    \/ LogBody
    \/ SkipEmptyLinesBeforeBody
    \/ ParseBody

SpecDoc == InitDoc /\ [][NextDoc]_vars

\* ------------------------------------------------------------------------
\* Specification of the event parser alone: one EventParser
\* (egtparser.py:99-150) whose parse and parsedate are called with tokens
\* ------------------------------------------------------------------------
TokenSet ==
    { <<"15", " ", "march", " ", "-", "-", " ", "16", " ", "march">>,
      <<"15", " ", "march">>,
      <<"15", " ", "march", " ", "9", ":", "00">>,
      <<"d", ":", "2021", "-", "05", "-", "01">>,
      <<"2021", "-", "05", "-", "01">>,
      <<"9", ":", "00">>,
      <<"00", ":", "15">>,
      <<"16", " ", "april", "-", "-", "9", ":", "00">>,
      <<"home">>,
      <<"home", " ", "-", "-", " ", "work">>,
      <<"-", "-", " ", "16", " ", "march">>,
      <<"15", " ", "march", " ", "-", "-", " ", "home">>,
      <<"d", ":", "home">>,
      <<"16", "home">>,
      <<>> }

InitEvent ==
    /\ AnnIdle
    /\ GLIdle
    /\ PPIdle

\* a call of EventParser.parse(s) (egtparser.py:108-115)
EvParse ==
    /\ ev_calls < MaxEventCalls
    /\ \E s \in TokenSet : \E r \in {EPParse(s, ev_default, TRUE)} :
        /\ ev_default' = r.default
        /\ ev_call' = [op |-> "parse", text |-> s, before |-> ev_default,
                       ev |-> None, d |-> r.d]
    /\ ev_calls' = ev_calls + 1
    /\ UNCHANGED <<annVars, glVars, ppVars, envVars, bpVars, logVars>>

\* a call of EventParser.parsedate(s) (egtparser.py:125-150)
EvParseDate ==
    /\ ev_calls < MaxEventCalls
    /\ \E s \in TokenSet : \E r \in {ParseDate(s, ev_default)} :
        /\ ev_default' = r.default
        /\ ev_call' = [op |-> "parsedate", text |-> s, before |-> ev_default,
                       ev |-> r.ev, d |-> None]
    /\ ev_calls' = ev_calls + 1
    /\ UNCHANGED <<annVars, glVars, ppVars, envVars, bpVars, logVars>>

NextEvent ==
    \/ EvParse
    \/ EvParseDate

SpecEvent == InitEvent /\ [][NextEvent]_vars

\* ------------------------------------------------------------------------
\* Specification of the passes with loops: a log pass (parse_log) or a body
\* pass (parse_body), step by step, under the fairness of a sequential
\* program that keeps running until it returns or raises
\* ------------------------------------------------------------------------
InitPasses ==
    /\ AnnIdle
    /\ GLIdle
    /\ \/ /\ lines \in SeqsUpTo(LogLineSet, MaxPassLines)
          /\ lines # <<>>
          /\ (IF lines = <<>> THEN FALSE
              ELSE /\ lines[1] # <<>>
                   /\ (IsLogLine(lines[1]) \/ ~MetaHeadMatch(lines[1])))
          /\ lineno = 0
          /\ pp_pc = "parse_log"
       \/ /\ \E body \in SeqsUpTo(BodyLineSet, MaxPassLines) :
                /\ (IF body = <<>> THEN TRUE ELSE body[1] # <<>>)
                /\ lines = BodyPrefix \o body
          /\ lineno = Len(BodyPrefix)
          /\ pp_pc = "parse_body"
    /\ raised = "none"
    /\ log = <<>>
    /\ today \in TodaySet
    /\ dateutil_blank \in DateutilBlankSet
    /\ EVIdle
    /\ LPInit
    /\ BPIdle

NextPasses ==
    \/ ParseLogNone
    \/ ParseLogStart
    \/ LogEnd
    \/ LogDate
    \/ LogHead
    \/ LogHeadError
    \/ LogBody
    \/ ParseBodyStart
    \/ NextActionsEnd
    \/ NextActionsStar
    \/ NextActionsContext
    \/ NextActionsDash
    \/ NextActionsSpacer
    \/ NextActionsFreeform
    \/ ListStep
    \/ ListEnd
    \/ ListEndUnbound
    \/ SomedayStep
    \/ SomedayEnd

SpecPasses == InitPasses /\ [][NextPasses]_vars /\ WF_vars(NextPasses)

\* ------------------------------------------------------------------------
\* C1: no body line is dropped: the lines of the emitted blocks, the copies
\* made for the second and later events of a header left out, are the input
\* lines in input order, also when the input ends inside a list.
\* ------------------------------------------------------------------------
RECURSIVE FlatLines(_)
FlatLines(blocks) ==
    IF blocks = <<>> THEN <<>>
    ELSE (IF blocks[1].copy <= 1 THEN blocks[1].lines ELSE <<>>) \o FlatLines(Tail(blocks))

C1_NoLineDropped ==
    pp_pc \in {"done", "raised"} => FlatLines(bp.parsed) = BodyInput

\* ------------------------------------------------------------------------
\* C2: the first line with marker Star and every line after it are, in
\* order, the lines of one SomedayMaybe block, the last block of the body;
\* no other block holds a line at or after it.
\* ------------------------------------------------------------------------
RECURSIVE FirstNonWs(_)
FirstNonWs(l) ==
    IF l = <<>> THEN "" ELSE IF l[1] \in {" ", "\t"} THEN FirstNonWs(Tail(l)) ELSE l[1]

StarLines == {k \in 1..Len(BodyInput) : FirstNonWs(BodyInput[k]) = "*"}
FirstStar == CHOOSE k \in StarLines : \A j \in StarLines : k <= j

IsPrefix(p, q) == Len(p) <= Len(q) /\ p = SubSeq(q, 1, Len(p))

OtherBlocks == SelectSeq(bp.parsed, LAMBDA blk : blk.tag # "someday-maybe")

C2_StarStartsSomeday ==
    (pp_pc \in {"body", "done", "raised"} /\ StarLines # {}) =>
        /\ pp_pc # "raised"
        /\ IsPrefix(FlatLines(OtherBlocks) \o (IF bp.pc = "list" THEN bp.na ELSE <<>>),
                    SubSeq(BodyInput, 1, FirstStar - 1))
        /\ pp_pc = "done" =>
              /\ bp.parsed # <<>>
              /\ bp.parsed[Len(bp.parsed)].tag = "someday-maybe"
              /\ bp.parsed[Len(bp.parsed)].lines =
                     SubSeq(BodyInput, FirstStar, Len(BodyInput))
              /\ FlatLines(SubSeq(bp.parsed, 1, Len(bp.parsed) - 1)) =
                     SubSeq(BodyInput, 1, FirstStar - 1)
              /\ \A j \in 1..(Len(bp.parsed) - 1) : bp.parsed[j].tag # "someday-maybe"

\* an indented star met inside the list of a context line, with a line
\* after it
C2_Witness ==
    /\ pp_pc = "done"
    /\ Len(bp.parsed) = 2
    /\ bp.parsed[1].tag = "next-actions"
    /\ bp.parsed[1].contexts # {}
    /\ Len(bp.parsed[1].lines) = 2
    /\ bp.parsed[2].tag = "someday-maybe"
    /\ Len(bp.parsed[2].lines) = 2
    /\ bp.parsed[2].lines[1][1] = " "

\* ------------------------------------------------------------------------
\* C3: the list of a context line whose tokens hold k events is emitted as
\* one NextActions block with all the tokens as contexts and no event when
\* k = 0, and as k consecutive blocks with the same lines and contexts, the
\* i-th with the i-th event, when k >= 1.
\* ------------------------------------------------------------------------
ContextListEnds ==
    /\ pp_pc = "body"
    /\ bp.pc = "list"
    /\ bp.contexts # None
    /\ BPBranch(bp, bp_items) = "list_end"

NewBlocks(old, new) == SubSeq(new, Len(old) + 1, Len(new))

C3_BlocksOfHeader ==
    [][ContextListEnds =>
          /\ Len(bp'.parsed) =
                Len(bp.parsed) + (IF bp.events = <<>> THEN 1 ELSE Len(bp.events))
          /\ \A j \in 1..Len(NewBlocks(bp.parsed, bp'.parsed)) :
                /\ NewBlocks(bp.parsed, bp'.parsed)[j].tag = "next-actions"
                /\ NewBlocks(bp.parsed, bp'.parsed)[j].lines = bp.na
                /\ NewBlocks(bp.parsed, bp'.parsed)[j].contexts = SeqToSet(bp.contexts[1])
                /\ NewBlocks(bp.parsed, bp'.parsed)[j].event =
                      (IF bp.events = <<>> THEN None ELSE Some(bp.events[j]))
          /\ bp.events = <<>> =>
                SeqToSet(bp.contexts[1]) = SeqToSet(HeaderTokens(bp.na[1]))]_vars

\* ------------------------------------------------------------------------
\* Cases of the log segmenter that the claims speak of
\* ------------------------------------------------------------------------
\* the segmenter is about to read a non-empty line
AtLogLine == pp_pc = "log_loop" /\ ~NoNextLine
NextLine == lines[lineno + 1]

\* "<day> <month>: H:MM-H:MM" with valid times
IsDayMonthRangeHead(l) ==
    /\ Len(l) = 12
    /\ IsNumeral(l[1]) /\ NumLen[l[1]] <= 2 /\ l[2] = " " /\ IsMonth(l[3])
    /\ l[4] = ":" /\ l[5] = " "
    /\ IsNumeral(l[6]) /\ l[7] = ":" /\ IsNumeral(l[8]) /\ l[9] = "-"
    /\ IsNumeral(l[10]) /\ l[11] = ":" /\ IsNumeral(l[12])
    /\ NumVal[l[6]] <= 23 /\ NumVal[l[8]] <= 59
    /\ NumVal[l[10]] <= 23 /\ NumVal[l[12]] <= 59

\* "<day> <month>:" and nothing else
IsDayMonthOnlyHead(l) ==
    /\ Len(l) = 4
    /\ IsNumeral(l[1]) /\ NumLen[l[1]] <= 2 /\ l[2] = " " /\ IsMonth(l[3])
    /\ l[4] = ":"

DayMonthAt(l, y, h, mi) == MkDT(y, MonthNum[l[3]], NumVal[l[1]], h, mi, 0)

\* the end time of the head is earlier than its start time
EndsBeforeStart(l) ==
    \/ NumVal[l[10]] < NumVal[l[6]]
    \/ NumVal[l[10]] = NumVal[l[6]] /\ NumVal[l[12]] < NumVal[l[8]]

\* ------------------------------------------------------------------------
\* C4 as stated: a head "<day> <month>: H:MM-H:MM" read after the year line
\* Y opens a block with begin = that day and month of Y at the start time
\* and until = the same date at the end time.
\* ------------------------------------------------------------------------
C4_AsStated ==
    [][(AtLogLine /\ year_line # 0 /\ IsDayMonthRangeHead(NextLine)) =>
          /\ begin' = Some(DayMonthAt(NextLine, year_line,
                                      NumVal[NextLine[6]], NumVal[NextLine[8]]))
          /\ until' = Some(DayMonthAt(NextLine, year_line,
                                      NumVal[NextLine[10]], NumVal[NextLine[12]]))]_vars

\* C4 amended: as C4, but until is moved one day forward when the end time
\* is earlier than the start time.
C4_YearContextHead ==
    [][(AtLogLine /\ year_line # 0 /\ IsDayMonthRangeHead(NextLine)) =>
          /\ begin' = Some(DayMonthAt(NextLine, year_line,
                                      NumVal[NextLine[6]], NumVal[NextLine[8]]))
          /\ until' = Some(IF EndsBeforeStart(NextLine)
                           THEN AddDay(DayMonthAt(NextLine, year_line,
                                          NumVal[NextLine[10]], NumVal[NextLine[12]]))
                           ELSE DayMonthAt(NextLine, year_line,
                                           NumVal[NextLine[10]], NumVal[NextLine[12]]))]_vars

\* "2015" then "16 march: 22:00-2:00" was read
C4_Witness ==
    /\ year_line = 2015
    /\ begin = Some(MkDT(2015, 3, 16, 22, 0, 0))
    /\ until = Some(MkDT(2015, 3, 17, 2, 0, 0))

\* ------------------------------------------------------------------------
\* C5: a head "<day> <month>:" without a time range opens an all-day block:
\* begin is the date at 00:00, until is begin plus one day, and the lines
\* after it form its body.
\* ------------------------------------------------------------------------
C5_AllDayHead ==
    [][(AtLogLine /\ IsDayMonthOnlyHead(NextLine)) =>
          /\ begin' = Some(DayMonthAt(NextLine, ep_default.year, 0, 0))
          /\ until' = Some(AddDay(DayMonthAt(NextLine, ep_default.year, 0, 0)))
          /\ logbody' = <<>>]_vars

\* ------------------------------------------------------------------------
\* C6: the body of every block, emitted or open, holds only lines that come
\* after the head of that block, unmodified and in input order.
\* ------------------------------------------------------------------------
BodyAfterHead(head, body, body_at) ==
    /\ Len(body) = Len(body_at)
    /\ \A k \in 1..Len(body_at) :
          /\ body_at[k] > head
          /\ body[k] = lines[body_at[k]]
          /\ k > 1 => body_at[k - 1] < body_at[k]

C6_BodyAfterHead ==
    /\ \A j \in 1..Len(entries) :
          BodyAfterHead(entries_at[j].head, entries[j].body, entries_at[j].body_at)
    /\ begin # None => BodyAfterHead(head_at, logbody, logbody_at)

\* ------------------------------------------------------------------------
\* C7: a line that matches the head pattern with an invalid time leaves the
\* open block as it is (not emitted, begin and until unchanged, no new
\* block) and is appended to its body.
\* ------------------------------------------------------------------------
InvalidTime(t) == NumVal[t[1]] > 23 \/ NumVal[t[2]] > 59

IsMalformedHead(l) ==
    /\ LogDateMatch(l) = None
    /\ LogHeadMatch(l) # None
    /\ IF InvalidTime(LogHeadMatch(l)[1].start) THEN TRUE
       ELSE IF LogHeadMatch(l)[1].end = None THEN FALSE
       ELSE InvalidTime(LogHeadMatch(l)[1].end[1])

C7_MalformedHeadDemoted ==
    [][(AtLogLine /\ begin # None /\ IsMalformedHead(NextLine)) =>
          /\ entries' = entries
          /\ begin' = begin
          /\ until' = until
          /\ logbody' = Append(logbody, NextLine)]_vars

\* ------------------------------------------------------------------------
\* C8: ProjectParser.parse never raises, and the log is empty whenever the
\* line at the log position matches neither log pattern or does not exist.
\* ------------------------------------------------------------------------
NoLogLineAtCursor == IF PPPeek = None THEN TRUE ELSE ~IsLogLine(PPPeek[1])

C8_NoRaiseEmptyLog ==
    [][/\ pp_pc' # "raised"
       /\ (pp_pc = "parse_log" /\ NoLogLineAtCursor) =>
              (log' = <<>> /\ pp_pc' = "skip2")
       /\ pp_pc \in {"skip2", "parse_body"} => log' = log]_vars

\* ------------------------------------------------------------------------
\* C9: every blank line gets marker Blank; a run of blank lines followed by
\* a non-blank line whose indent up to its marker is >= the indent of the
\* non-blank line before the run (0 when there is none) gets that preceding
\* indent, every other run, and every trailing run, gets indent 0.
\* ------------------------------------------------------------------------
\* width of the white space a line starts with
RECURSIVE LeadingWidth(_, _)
LeadingWidth(l, k) ==
    IF k > Len(l) THEN 0
    ELSE IF l[k] = " " THEN 1 + LeadingWidth(l, k + 1)
    ELSE IF l[k] = "\t" THEN 8 + LeadingWidth(l, k + 1)
    ELSE 0

NonBlankBefore(k) == {p \in 1..(k - 1) : ~IsBlank(ann_lines[p])}
NonBlankAfter(k) == {n \in (k + 1)..Len(ann_lines) : ~IsBlank(ann_lines[n])}
MaxOf(S) == CHOOSE x \in S : \A y \in S : y <= x
MinOf(S) == CHOOSE x \in S : \A y \in S : x <= y

PrecedingIndent(k) ==
    IF NonBlankBefore(k) = {} THEN 0 ELSE ann_st.out[MaxOf(NonBlankBefore(k))].ind

ExpectedBlankIndent(k) ==
    IF NonBlankAfter(k) = {} THEN 0
    ELSE IF LeadingWidth(ann_lines[MinOf(NonBlankAfter(k))], 1) >= PrecedingIndent(k)
         THEN PrecedingIndent(k)
         ELSE 0

C9_BlankIndent ==
    ann_pc = "done" =>
        /\ Len(ann_st.out) = Len(ann_lines)
        /\ \A k \in 1..Len(ann_lines) :
              /\ ann_st.out[k].line = ann_lines[k]
              /\ IsBlank(ann_lines[k]) =>
                    /\ ann_st.out[k].mark = BlankMarker
                    /\ ann_st.out[k].ind = ExpectedBlankIndent(k)

\* a blank line that inherited a positive indent, before a marker line
C9_Witness ==
    /\ ann_pc = "done"
    /\ \E k \in 1..Len(ann_lines) :
          /\ IsBlank(ann_lines[k])
          /\ ann_st.out[k].ind > 0
          /\ k < Len(ann_lines)
          /\ ann_st.out[k + 1].mark = "-"

\* ------------------------------------------------------------------------
\* C10: peek does not consume and returns what the next pop returns; the
\* pops return the underlying sequence in order; at the end of the sequence
\* every peek and every pop fails.
\* ------------------------------------------------------------------------
C10_Cursor ==
    /\ Len(popped) <= Len(gen_items)
    /\ popped = SubSeq(gen_items, 1, Len(popped))
    /\ last_call.op # "none" =>
          /\ last_call.stop = (last_call.before = Len(gen_items))
          /\ ~last_call.stop => last_call.val = <<gen_items[last_call.before + 1]>>
          /\ last_call.op = "peek" => Len(popped) = last_call.before
          /\ (last_call.op = "pop" /\ ~last_call.stop) =>
                Len(popped) = last_call.before + 1

\* a peek was answered, then a pop, and a later call met the end
C10_Witness ==
    /\ last_call.stop
    /\ Len(popped) = Len(gen_items)
    /\ Len(popped) >= 2

\* ------------------------------------------------------------------------
\* C11: parsedate on a token that contains the range separator returns an
\* event whose start is the parse of the text before the separator, whose
\* end is the parse of the text after it (read with the default the first
\* side left) and whose allDay is False, also when the start is at
\* midnight: "15 march -- 16 march" gives 15 march 00:00, 16 march 00:00.
\* ------------------------------------------------------------------------
HasSeparator(s) == \E i \in 1..(Len(s) - 1) : s[i] = "-" /\ s[i + 1] = "-"
SeparatorAt(s) ==
    CHOOSE i \in 1..(Len(s) - 1) :
        /\ s[i] = "-" /\ s[i + 1] = "-"
        /\ \A j \in 1..(i - 1) : ~(s[j] = "-" /\ s[j + 1] = "-")
FirstSide(s) == Strip(SubSeq(s, 1, SeparatorAt(s) - 1), {" ", "\t"})
SecondSide(s) == Strip(SubSeq(s, SeparatorAt(s) + 2, Len(s)), {" ", "\t"})
\* the default the second side is read with
DefaultAfter(text, before) ==
    IF DateutilParse(text, before) = None THEN before
    ELSE Midnight(DateutilParse(text, before)[1])
RangeExample == <<"15", " ", "march", " ", "-", "-", " ", "16", " ", "march">>

StartsWithDigit(s) == s # <<>> /\ IsNumeral(s[1])
HasDatePrefix(s) == Len(s) >= 2 /\ s[1] = "d" /\ s[2] = ":"
DateText(s) == IF StartsWithDigit(s) THEN s ELSE SubSeq(s, 3, Len(s))
PrefixExample == <<"d", ":", "2021", "-", "05", "-", "01">>

C12_SingleEvent ==
    (ev_call.op = "parsedate" /\ ~HasSeparator(ev_call.text)) =>
        IF ~StartsWithDigit(ev_call.text) /\ ~HasDatePrefix(ev_call.text)
        THEN ev_call.ev = None
        ELSE /\ \A d \in {DateutilParse(DateText(ev_call.text), ev_call.before)} :
                d # None =>
                    /\ ev_call.ev # None
                    /\ \A e \in {ev_call.ev[k] : k \in DOMAIN ev_call.ev} :
                        /\ e.start = d
                        /\ e.end = None
                        /\ e.allDay = (d[1].hour = 0 /\ d[1].minute = 0 /\ d[1].second = 0)
             /\ ev_call.text = PrefixExample =>
                    ev_call.ev = Some([start |-> Some(MkDT(2021, 5, 1, 0, 0, 0)),
                                       end |-> None, allDay |-> TRUE])

C12_Witness ==
    /\ ev_call.op = "parsedate"
    /\ ev_call.text = <<"15", " ", "march", " ", "9", ":", "00">>
    /\ ev_call.ev # None
    /\ ev_call.before.month = 5

\* ------------------------------------------------------------------------
\* C13: a stand-alone year line Y leaves the rolling default of the log
\* segmenter at Y-01-01 00:00, whatever was parsed before it.
\* ------------------------------------------------------------------------
IsYearLine(l) == Len(l) = 1 /\ IsNumeral(l[1]) /\ NumLen[l[1]] = 4

InContextList ==
    /\ pp_pc = "body"
    /\ bp.pc = "list"
    /\ bp.contexts # None
    /\ Len(bp.na) >= 2
    /\ ~GLPeek(bp.lines, bp_items).stop

\* the line that follows, and the first body line of the list
ListNext == GLPeek(bp.lines, bp_items).val[1]
ListFirstBody == bp_items[(ListNext.num - lineno + 1) - (Len(bp.na) - 1)]

C14_ListExtent ==
    [][InContextList =>
          IF ListNext.mark # "*" /\ ListNext.ind >= ListFirstBody.ind
          THEN bp'.pc = "list" /\ bp'.na = Append(bp.na, ListNext.line)
          ELSE bp'.pc = "next_actions" /\ bp'.parsed # bp.parsed]_vars

\* ------------------------------------------------------------------------
\* C15: for every emitted block, until is None exactly when the head that
\* opened it has no end time; otherwise until carries that head's end time
\* on the head's date, one day later if and only if that is earlier than
\* begin, so begin <= until < begin + 1 day.  It is never the until of an
\* earlier block.
\* ------------------------------------------------------------------------
\* the head line that opened the k-th emitted block
OpeningHead(k) == LogHeadMatch(lines[entries_at[k].head])[1]

UntilOfHead(k) ==
    IF OpeningHead(k).end = None THEN entries[k].until = None
    ELSE /\ entries[k].until # None
         /\ \A b \in {entries[k].begin[j] : j \in DOMAIN entries[k].begin} :
            \A u \in {entries[k].until[j] : j \in DOMAIN entries[k].until} :
                /\ u.hour = NumVal[OpeningHead(k).end[1][1]]
                /\ u.minute = NumVal[OpeningHead(k).end[1][2]]
                /\ ~DtLess(u, b)
                /\ DtLess(u, AddDay(b))

C15_UntilOfBlock == \A k \in 1..Len(entries) : UntilOfHead(k)

\* ------------------------------------------------------------------------
\* C16 as stated: a stand-alone date line (a 4-digit year, or dashes and a
\* date phrase) changes only the rolling default: no block is opened,
\* closed or emitted, and begin, until and the accumulated body stay as
\* they are.
\* ------------------------------------------------------------------------
IsDateLineText(l) ==
    \/ IsYearLine(l)
    \/ l # <<>> /\ l[1] = "-" /\ LStrip(l, {"-", " ", "\t"}) # <<>>

C16_AsStated ==
    [][(AtLogLine /\ IsDateLineText(NextLine)) =>
          /\ begin' = begin
          /\ until' = until
          /\ logbody' = logbody
          /\ entries' = entries]_vars

\* C16 amended: a stand-alone date line opens no block and leaves until
\* unchanged; an open block is closed and emitted with the body
\* accumulated so far, which is then cleared; with no open block begin
\* and the accumulated body stay as they are.
C16_DateLineFlushes ==
    [][(AtLogLine /\ IsDateLineText(NextLine)) =>
          /\ begin' = None
          /\ until' = until
          /\ IF begin = None
             THEN entries' = entries /\ logbody' = logbody
             ELSE /\ entries' = Append(entries,
                                       [begin |-> begin, until |-> until, body |-> logbody])
                  /\ logbody' = <<>>]_vars

\* a date line has just closed an open block
C16_Witness ==
    /\ pp_pc = "log_loop"
    /\ lineno >= 2
    /\ IsDateLineText(lines[lineno])
    /\ entries # <<>>
    /\ entries_at[Len(entries_at)].head = lineno - 1
    /\ begin = None

\* ------------------------------------------------------------------------
\* C17: the log segmenter emits exactly one block per accepted log head, in
\* the order of the heads: every emitted block has begin not None, a block
\* is emitted only by the flush of an open block, and at the end of the
\* log no opened block stays unemitted.
\* ------------------------------------------------------------------------
IsAcceptedHead(l) ==
    /\ LogDateMatch(l) = None
    /\ LogHeadMatch(l) # None
    /\ ~IsMalformedHead(l)

\* the accepted heads among the lines read so far
AcceptedHeads == {k \in 1..lineno : IsAcceptedHead(lines[k])}
\* the last accepted head, when no date line came after it
OpenHead ==
    {k \in AcceptedHeads :
        \A j \in (k + 1)..lineno :
            ~IsAcceptedHead(lines[j]) /\ ~IsDateLineText(lines[j]) /\ lines[j] # <<>>}

C17_OneBlockPerHead ==
    pp_pc \in {"log_loop", "skip2"} =>
        /\ \A k \in 1..Len(entries) : entries[k].begin # None
        /\ \A k \in 1..Len(entries) : entries_at[k].head \in AcceptedHeads
        /\ \A k \in 1..(Len(entries) - 1) : entries_at[k].head < entries_at[k + 1].head
        /\ IF pp_pc = "skip2"
           THEN /\ begin = None
                /\ log = entries
                /\ {entries_at[k].head : k \in 1..Len(entries)} = AcceptedHeads
           ELSE /\ {entries_at[k].head : k \in 1..Len(entries)} = AcceptedHeads \ OpenHead
                /\ (begin # None) = (OpenHead # {})
                /\ begin # None => head_at \in OpenHead

\* ------------------------------------------------------------------------
\* C18: after every call of parse or parsedate the rolling default is
\* midnight of the date returned by the most recent successful parse that
\* was not the until side of a range, or the seed: its time is 00:00:00, a
\* parse that fails returns None and leaves it unchanged, the until side
\* of a range leaves it unchanged, and a bare time of day leaves its date
\* unchanged.
\* ------------------------------------------------------------------------
\* the text whose parse may move the default, None if the call parses none
DefaultText(c) ==
    IF c.op = "parse" THEN Some(c.text)
    ELSE IF c.text = <<>> THEN None
    ELSE IF HasSeparator(c.text) THEN Some(FirstSide(c.text))
    ELSE IF StartsWithDigit(c.text) \/ HasDatePrefix(c.text) THEN Some(DateText(c.text))
    ELSE None

IsBareTime(t) == Len(t) = 3 /\ IsNumeral(t[1]) /\ t[2] = ":" /\ IsNumeral(t[3])

DefaultFollows(c, after) ==
    /\ after.hour = 0 /\ after.minute = 0 /\ after.second = 0
    /\ IF DefaultText(c) = None THEN after = c.before
       ELSE \A t \in {DefaultText(c)[1]} : \A d \in {DateutilParse(t, c.before)} :
            /\ d = None => after = c.before
            /\ d # None => after = Midnight(d[1])
            /\ c.op = "parse" => c.d = d
            /\ IsBareTime(t) => after = c.before

C18_RollingDefault ==
    /\ ev_default.hour = 0 /\ ev_default.minute = 0 /\ ev_default.second = 0
    /\ ev_call.op # "none" => DefaultFollows(ev_call, ev_default)

\* a range whose two sides are different dates was parsed after another
\* date
C18_Witness ==
    /\ ev_call.op = "parsedate"
    /\ ev_call.text = RangeExample
    /\ ev_call.before.month = 5
    /\ ev_default.month = 3 /\ ev_default.day = 15

\* ------------------------------------------------------------------------
\* C19: parsedate returns an event only for a token that parsed as a date:
\* the start of every event it returns is a datetime, never None, and a
\* token whose text does not parse as a date, a range with sides that are
\* no dates included, gives None.
\* ------------------------------------------------------------------------
C19_EventHasStart ==
    (ev_call.op = "parsedate" /\ ev_call.ev # None) =>
        \A e \in {ev_call.ev[k] : k \in DOMAIN ev_call.ev} : e.start # None

\* ------------------------------------------------------------------------
\* C20: after every step of the next-actions pass the emitted body has no
\* two adjacent Spacer blocks and no two adjacent FreeformText blocks, every
\* Spacer holds only blank lines, and no Spacer or FreeformText block is
\* empty.
\* ------------------------------------------------------------------------
Coalesced == {"spacer", "freeform"}

C20_Coalesced ==
    pp_pc \in {"body", "done", "raised"} =>
        /\ \A k \in 1..(Len(bp.parsed) - 1) :
              bp.parsed[k].tag \in Coalesced => bp.parsed[k + 1].tag # bp.parsed[k].tag
        /\ \A k \in 1..Len(bp.parsed) :
              /\ bp.parsed[k].tag \in Coalesced => bp.parsed[k].lines # <<>>
              /\ bp.parsed[k].tag = "spacer" =>
                    \A j \in 1..Len(bp.parsed[k].lines) : IsBlank(bp.parsed[k].lines[j])
              /\ bp.parsed[k].tag = "freeform" =>
                    \A j \in 1..Len(bp.parsed[k].lines) : ~IsBlank(bp.parsed[k].lines[j])

\* two freeform lines, then two blank lines
C20_Witness ==
    /\ pp_pc = "done"
    /\ Len(bp.parsed) = 2
    /\ bp.parsed[1].tag = "freeform" /\ Len(bp.parsed[1].lines) = 2
    /\ bp.parsed[2].tag = "spacer" /\ Len(bp.parsed[2].lines) = 2

\* ------------------------------------------------------------------------
\* C21: every annotated line handed to the body parser by
\* ProjectParser.parse carries as num the 1-based position of the line in
\* the whole document, whatever comes before the body.
\* ------------------------------------------------------------------------
C21_DocumentLineNumbers ==
    \A k \in 1..Len(bp_items) : bp_items[k].num = lineno + k

\* ------------------------------------------------------------------------
\* C22: ProjectParser.parse splits the document into disjoint, ordered
\* regions: the cursor only moves forward, the lines skipped between the
\* stages are empty, the log segmenter takes one line per iteration and
\* stops at the first empty line or at the end of the input, and the body
\* parser receives exactly the lines after the log region and the blank
\* lines that follow it, so no line is processed by both the log and the
\* body stage.
\* ------------------------------------------------------------------------
\* the lines the log segmenter has put into a block or into its body
LogLinesSeen ==
    ({head_at} \ {0}) \cup SeqToSet(logbody_at)
    \cup UNION {({entries_at[k].head} \ {0}) \cup SeqToSet(entries_at[k].body_at) :
                   k \in 1..Len(entries_at)}

AtNonEmptyOrEnd(k) == IF k >= Len(lines) THEN TRUE ELSE lines[k + 1] # <<>>

C22_Regions ==
    [][/\ lines' = lines
       /\ lineno' >= lineno
       /\ lineno' <= Len(lines)
       /\ LogLinesSeen' \subseteq 1..lineno'
       /\ pp_pc = "parse_meta" =>
              \A k \in (lineno + 1)..(lineno' - 1) : lines[k] # <<>>
       /\ pp_pc \in {"skip1", "skip2"} =>
              /\ \A k \in (lineno + 1)..lineno' : lines[k] = <<>>
              /\ AtNonEmptyOrEnd(lineno')
       /\ pp_pc = "parse_log" => lineno' = lineno
       /\ pp_pc = "log_loop" =>
              IF AtNonEmptyOrEnd(lineno) /\ lineno < Len(lines)
              THEN pp_pc' = "log_loop" /\ lineno' = lineno + 1
              ELSE /\ pp_pc' = "skip2"
                   /\ lineno' = IF lineno < Len(lines) THEN lineno + 1 ELSE lineno
       /\ pp_pc = "parse_body" =>
              /\ lineno' = lineno
              /\ AtNonEmptyOrEnd(lineno)
              /\ [k \in 1..Len(bp_items') |-> bp_items'[k].line] =
                     SubSeq(lines, lineno + 1, Len(lines))]_vars

\* a log, two empty lines and a body were parsed
C22_Witness ==
    /\ pp_pc \in {"done", "raised"}
    /\ log # <<>>
    /\ bp_items # <<>>
    /\ lineno = 3
    /\ lines[2] = <<>>
    /\ lines[3] = <<>>

\* ------------------------------------------------------------------------
\* C23: parsing terminates: every iteration of the log loop, of the
\* next-actions pass, of the list loop and of the someday/maybe loop
\* consumes at least one line or ends its pass (a contextless list started
\* by a dash line consumes that line in its first iteration), so every pass
\* eventually returns or raises.
\* ------------------------------------------------------------------------
\* the number of annotated lines the body parser has popped
Popped(b) == b.lines.pos - (IF b.lines.has_lookahead THEN 1 ELSE 0)

PassOver == pp_pc \in {"skip2", "done", "raised"}

IterationProgress ==
    /\ pp_pc = "log_loop" => (lineno' = lineno + 1 \/ pp_pc' # "log_loop")
    /\ pp_pc = "body" =>
          /\ Popped(bp') >= Popped(bp)
          /\ bp.pc = "next_actions" =>
                \/ Popped(bp') > Popped(bp)
                \/ bp'.pc \in {"done", "raised", "someday"}
                \/ bp'.pc = "list" /\ bp'.na = <<>> /\ bp'.last_indent = None
          /\ bp.pc = "list" =>
                \/ Popped(bp') > Popped(bp)
                \/ bp'.pc \in {"next_actions", "raised"} /\ bp.na # <<>>
          /\ bp.pc = "someday" =>
                \/ Popped(bp') > Popped(bp)
                \/ bp'.pc = "done"

C23_Terminates == [][IterationProgress]_vars /\ <>PassOver

\* a body pass went through a contextless list and the someday/maybe loop,
\* popped both of its lines and returned
C23_Witness ==
    /\ pp_pc = "done"
    /\ Len(bp_items) = 2
    /\ Popped(bp) = 2
    /\ Len(bp.parsed) = 2
    /\ bp.parsed[1].tag = "next-actions" /\ bp.parsed[1].contexts = {}
    /\ bp.parsed[2].tag = "someday-maybe"

====
